---- MODULE Spec2Model ----
(***************************************************************************)
(* Model of passwdm (src/cli.js): a local password vault.  Secrets are     *)
(* encrypted with AES-256-GCM under a master key from the config file and  *)
(* kept in a JSON store file; an interactive menu drives generate / get /  *)
(* rotate / replace / delete flows.                                        *)
(*                                                                         *)
(* JavaScript strings are sequences of UTF-16 code units (integers),       *)
(* buffers are sequences of bytes (0..255).                                *)
(***************************************************************************)
EXTENDS Integers, Sequences, FiniteSets, TLC

(***************************************************************************)
(* Bounds of the model.                                                    *)
(***************************************************************************)
\* longest plaintext (in code units) given to encryptText in SpecCrypto
MaxPlainLen == 2
\* most entries the store file holds
MaxEntries == 3
\* most ids crypto.randomUUID() hands out in one run
MaxIds == 3
\* longest password asked of generatePassword in SpecGen
MaxPwLen == 13

(***************************************************************************)
(* Program constants.                                                      *)
(***************************************************************************)
IV_LEN == 12
KEY_LEN == 32
TAG_LEN == 16
DEFAULT_PW_LEN == 12
MIN_PW_LEN == 8

Range(lo, hi) == [i \in 1..(hi - lo + 1) |-> lo + i - 1]

LOWER == Range(97, 122)
UPPER == Range(65, 90)
DIGITS == Range(48, 57)
SPECIAL == <<33, 64, 35, 36, 94, 38, 42, 126>>

\* characters with a meaning in the payload encoding
COLON == 58
SPACE == 32

(***************************************************************************)
(* Generic sequence helpers (Array.prototype / String.prototype).          *)
(***************************************************************************)
SeqRange(s) == {s[i] : i \in 1..Len(s)}

\* String.prototype.indexOf for one character, 0 when absent (1-based here)
IndexOf(s, c) ==
  IF \E i \in 1..Len(s) : s[i] = c
  THEN CHOOSE i \in 1..Len(s) : s[i] = c /\ \A j \in 1..(i - 1) : s[j] # c
  ELSE 0

\* String.prototype.split(':'): the sequence of parts
RECURSIVE Split(_, _)
Split(s, sep) ==
  LET k == IndexOf(s, sep) IN
  IF k = 0 THEN <<s>>
  ELSE <<SubSeq(s, 1, k - 1)>> \o Split(SubSeq(s, k + 1, Len(s)), sep)

\* Array.prototype.join(':')
RECURSIVE Join(_, _)
Join(parts, sep) ==
  IF parts = <<>> THEN <<>>
  ELSE IF Len(parts) = 1 THEN parts[1]
  ELSE parts[1] \o <<sep>> \o Join(Tail(parts), sep)

\* String.prototype.trim (the only white space modelled is the space)
RECURSIVE TrimStart(_)
TrimStart(s) ==
  IF s # <<>> /\ Head(s) = SPACE THEN TrimStart(Tail(s)) ELSE s

RECURSIVE TrimEnd(_)
TrimEnd(s) ==
  IF s # <<>> /\ s[Len(s)] = SPACE THEN TrimEnd(SubSeq(s, 1, Len(s) - 1)) ELSE s

Trim(s) == TrimEnd(TrimStart(s))

(***************************************************************************)
(* Buffer.toString('hex') and Buffer.from(s, 'hex').                       *)
(***************************************************************************)
HexDigits == <<48, 49, 50, 51, 52, 53, 54, 55, 56, 57, 97, 98, 99, 100, 101, 102>>

\* value of a hex digit, either case; -1 for any other character
HexVal(c) ==
  IF c >= 48 /\ c <= 57 THEN c - 48
  ELSE IF c >= 97 /\ c <= 102 THEN c - 87
  ELSE IF c >= 65 /\ c <= 70 THEN c - 55
  ELSE -1

\* b.toString('hex'): two lower-case digits per byte
HexEncode(b) ==
  [i \in 1..(2 * Len(b)) |->
     IF i % 2 = 1 THEN HexDigits[(b[(i + 1) \div 2] \div 16) + 1]
     ELSE HexDigits[(b[i \div 2] % 16) + 1]]

\* Buffer.from(s, 'hex'): decodes pairs of digits and stops at the first
\* pair that is not two hex digits; a trailing odd character is dropped
HexDecode(s) ==
  LET pairs == Len(s) \div 2
      good(k) == HexVal(s[2 * k - 1]) >= 0 /\ HexVal(s[2 * k]) >= 0
      n == IF \A k \in 1..pairs : good(k) THEN pairs
           ELSE (CHOOSE k \in 1..pairs : ~good(k) /\ \A j \in 1..(k - 1) : good(j)) - 1
  IN [i \in 1..n |-> HexVal(s[2 * i - 1]) * 16 + HexVal(s[2 * i])]

(***************************************************************************)
(* UTF-8: Buffer.from(str, 'utf8') (inside cipher.update) and              *)
(* Buffer.toString('utf8').                                                *)
(***************************************************************************)
REPLACEMENT == 65533

IsHighSurrogate(c) == c >= 55296 /\ c <= 56319
IsLowSurrogate(c) == c >= 56320 /\ c <= 57343
IsContinuation(b) == b >= 128 /\ b <= 191

\* encoding: a surrogate pair is one 4-byte sequence, an unpaired surrogate
\* is written as U+FFFD (EF BF BD)
RECURSIVE Utf8EncodeFrom(_, _)
Utf8EncodeFrom(s, i) ==
  IF i > Len(s) THEN <<>>
  ELSE LET c == s[i] IN
    IF c < 128 THEN <<c>> \o Utf8EncodeFrom(s, i + 1)
    ELSE IF c < 2048 THEN
      <<192 + (c \div 64), 128 + (c % 64)>> \o Utf8EncodeFrom(s, i + 1)
    ELSE IF IsHighSurrogate(c) /\ i < Len(s) /\ IsLowSurrogate(s[i + 1]) THEN
      LET cp == 65536 + (c - 55296) * 1024 + (s[i + 1] - 56320) IN
      <<240 + (cp \div 262144), 128 + ((cp \div 4096) % 64),
        128 + ((cp \div 64) % 64), 128 + (cp % 64)>> \o Utf8EncodeFrom(s, i + 2)
    ELSE IF IsHighSurrogate(c) \/ IsLowSurrogate(c) THEN
      <<239, 191, 189>> \o Utf8EncodeFrom(s, i + 1)
    ELSE
      <<224 + (c \div 4096), 128 + ((c \div 64) % 64), 128 + (c % 64)>>
        \o Utf8EncodeFrom(s, i + 1)

Utf8Encode(s) == Utf8EncodeFrom(s, 1)

\* decoding: an ill-formed byte becomes U+FFFD; a 4-byte sequence becomes a
\* surrogate pair
RECURSIVE Utf8DecodeFrom(_, _)
Utf8DecodeFrom(b, i) ==
  IF i > Len(b) THEN <<>>
  ELSE LET b1 == b[i]
           has(n) == i + n <= Len(b) /\ \A k \in 1..n : IsContinuation(b[i + k])
       IN
    IF b1 < 128 THEN <<b1>> \o Utf8DecodeFrom(b, i + 1)
    ELSE IF b1 >= 194 /\ b1 <= 223 /\ has(1) THEN
      <<(b1 - 192) * 64 + (b[i + 1] - 128)>> \o Utf8DecodeFrom(b, i + 2)
    ELSE IF b1 >= 224 /\ b1 <= 239 /\ has(2) THEN
      LET cp == (b1 - 224) * 4096 + (b[i + 1] - 128) * 64 + (b[i + 2] - 128) IN
      IF cp < 2048 \/ IsHighSurrogate(cp) \/ IsLowSurrogate(cp)
      THEN <<REPLACEMENT>> \o Utf8DecodeFrom(b, i + 1)
      ELSE <<cp>> \o Utf8DecodeFrom(b, i + 3)
    ELSE IF b1 >= 240 /\ b1 <= 244 /\ has(3) THEN
      LET cp == (b1 - 240) * 262144 + (b[i + 1] - 128) * 4096
                  + (b[i + 2] - 128) * 64 + (b[i + 3] - 128) IN
      IF cp < 65536 \/ cp > 1114111
      THEN <<REPLACEMENT>> \o Utf8DecodeFrom(b, i + 1)
      ELSE <<55296 + ((cp - 65536) \div 1024), 56320 + ((cp - 65536) % 1024)>>
             \o Utf8DecodeFrom(b, i + 4)
    ELSE <<REPLACEMENT>> \o Utf8DecodeFrom(b, i + 1)

Utf8Decode(b) == Utf8DecodeFrom(b, 1)

(***************************************************************************)
(* Base64: Buffer.toString('base64') and Buffer.from(s, 'base64').         *)
(***************************************************************************)
B64Chars == UPPER \o LOWER \o DIGITS \o <<43, 47>>
PAD == 61

\* value of a base64 character (either alphabet); -1 for any other character
B64Val(c) ==
  IF c >= 65 /\ c <= 90 THEN c - 65
  ELSE IF c >= 97 /\ c <= 122 THEN c - 71
  ELSE IF c >= 48 /\ c <= 57 THEN c + 4
  ELSE IF c = 43 \/ c = 45 THEN 62
  ELSE IF c = 47 \/ c = 95 THEN 63
  ELSE -1

RECURSIVE Base64EncodeFrom(_, _)
Base64EncodeFrom(b, i) ==
  LET left == Len(b) - i + 1 IN
  IF left <= 0 THEN <<>>
  ELSE IF left = 1 THEN
    <<B64Chars[(b[i] \div 4) + 1], B64Chars[((b[i] % 4) * 16) + 1], PAD, PAD>>
  ELSE IF left = 2 THEN
    <<B64Chars[(b[i] \div 4) + 1],
      B64Chars[((b[i] % 4) * 16 + (b[i + 1] \div 16)) + 1],
      B64Chars[((b[i + 1] % 16) * 4) + 1], PAD>>
  ELSE
    <<B64Chars[(b[i] \div 4) + 1],
      B64Chars[((b[i] % 4) * 16 + (b[i + 1] \div 16)) + 1],
      B64Chars[((b[i + 1] % 16) * 4 + (b[i + 2] \div 64)) + 1],
      B64Chars[(b[i + 2] % 64) + 1]>> \o Base64EncodeFrom(b, i + 3)

Base64Encode(b) == Base64EncodeFrom(b, 1)

\* the 6-bit values of the characters up to the first '=', skipping
\* characters outside the alphabet
B64Sextets(s) ==
  LET stop == IndexOf(s, PAD)
      body == IF stop = 0 THEN s ELSE SubSeq(s, 1, stop - 1)
      T(c) == B64Val(c) >= 0
      kept == SelectSeq(body, T)
  IN [i \in 1..Len(kept) |-> B64Val(kept[i])]

RECURSIVE B64Bytes(_, _)
B64Bytes(v, i) ==
  LET left == Len(v) - i + 1 IN
  IF left <= 1 THEN <<>>
  ELSE IF left = 2 THEN <<v[i] * 4 + (v[i + 1] \div 16)>>
  ELSE IF left = 3 THEN
    <<v[i] * 4 + (v[i + 1] \div 16), (v[i + 1] % 16) * 16 + (v[i + 2] \div 4)>>
  ELSE
    <<v[i] * 4 + (v[i + 1] \div 16), (v[i + 1] % 16) * 16 + (v[i + 2] \div 4),
      (v[i + 2] % 4) * 64 + v[i + 3]>> \o B64Bytes(v, i + 4)

Base64Decode(s) == B64Bytes(B64Sextets(s), 1)

(***************************************************************************)
(* AES-256-GCM (crypto.createCipheriv / createDecipheriv).  The cipher is  *)
(* an additive stream cipher keyed by (key, iv) and the tag a keyed digest *)
(* of (key, iv, ciphertext): every byte of the tag depends on every byte   *)
(* of its input with an odd weight, so a ciphertext that differs in one    *)
(* byte has a different tag, also when the tag is cut to its first bytes.  *)
(***************************************************************************)
\* sum of (s[i] + 1) * (an odd weight that depends on i and j) for i in lo..hi
RECURSIVE WeightedSum(_, _, _, _)
WeightedSum(s, j, lo, hi) ==
  IF lo > hi THEN 0
  ELSE IF lo = hi THEN (s[lo] + 1) * (2 * ((lo * j) % 128) + 1)
  ELSE LET mid == (lo + hi) \div 2
       IN WeightedSum(s, j, lo, mid) + WeightedSum(s, j, mid + 1, hi)

Digest(s, j) == (WeightedSum(s, j, 1, Len(s)) + j) % 256

\* byte i of the key stream, given the digest of (key, iv)
KeyStream(seed, i) == (seed + 7 * i) % 256

GcmEncrypt(key, iv, data) ==
  LET seed == Digest(key \o iv, 1)
  IN [i \in 1..Len(data) |-> (data[i] + KeyStream(seed, i)) % 256]

GcmDecrypt(key, iv, ct) ==
  LET seed == Digest(key \o iv, 1)
  IN [i \in 1..Len(ct) |-> (ct[i] + 256 - KeyStream(seed, i)) % 256]

GcmTag(key, iv, ct) ==
  LET input == <<Digest(key, 1)>> \o iv \o <<Len(ct)>> \o ct
  IN [j \in 1..TAG_LEN |-> Digest(input, j)]

\* tag lengths decipher.setAuthTag accepts for GCM when the decipher was
\* created without authTagLength: every build takes the full 16 bytes, a
\* build that still allows short tags also takes 4, 8 and 12..15 bytes.
\* Which build runs is a choice made where decryptText is called.
ValidTagLengths(shortTags) ==
  IF shortTags THEN {4, 8, 12, 13, 14, 15, 16} ELSE {TAG_LEN}

(***************************************************************************)
(* encryptText / decryptText.                                              *)
(***************************************************************************)
\* a variant that joins the components in the order iv, tag, ciphertext
encryptText_tagFirst(key, plain, iv) ==
  LET ct  == GcmEncrypt(key, iv, Utf8Encode(plain))
      tag == GcmTag(key, iv, ct)
  IN Join(<<HexEncode(iv), HexEncode(tag), HexEncode(ct)>>, COLON)

\* a variant that encrypts under one fixed nonce, whatever was drawn
encryptText_fixedIv(key, plain, iv) ==
  LET iv0 == [i \in 1..IV_LEN |-> 0]
      ct  == GcmEncrypt(key, iv0, Utf8Encode(plain))
      tag == GcmTag(key, iv0, ct)
  IN Join(<<HexEncode(iv0), HexEncode(ct), HexEncode(tag)>>, COLON)

\* encryptText(plain) under masterKey `key`, with `iv` the outcome of
\* crypto.randomBytes(IV_LEN)
encryptText(key, plain, iv) ==
  LET ct  == GcmEncrypt(key, iv, Utf8Encode(plain))
      tag == GcmTag(key, iv, ct)
  IN Join(<<HexEncode(iv), HexEncode(ct), HexEncode(tag)>>, COLON)

Threw(why) == [ok |-> FALSE, error |-> why, text |-> <<>>]
Returned(text) == [ok |-> TRUE, error |-> "none", text |-> text]

\* decryptText(payload): the value returned, or the exception thrown
decryptText(key, payload, shortTags) ==
  LET parts == Split(payload, COLON) IN
  IF Len(parts) < 3 THEN Threw("type")      \* Buffer.from(undefined, 'hex')
  ELSE
    LET iv  == HexDecode(parts[1])
        ct  == HexDecode(parts[2])
        tag == HexDecode(parts[3])
    IN
    IF iv = <<>> THEN Threw("iv")            \* createDecipheriv
    ELSE IF Len(tag) \notin ValidTagLengths(shortTags) THEN Threw("taglen")  \* setAuthTag
    ELSE IF tag # SubSeq(GcmTag(key, iv, ct), 1, Len(tag)) THEN Threw("auth")  \* final
    ELSE Returned(Utf8Decode(GcmDecrypt(key, iv, ct)))

(***************************************************************************)
(* generatePassword.  Math.random() returns level / RandLevels; `tape` is  *)
(* the sequence of levels the successive calls return.                     *)
(***************************************************************************)
RandLevels == 8

\* pick(s) = s[Math.floor(Math.random() * s.length)]
pick(s, level) == s[((level * Len(s)) \div RandLevels) + 1]

\* a variant that copies pw[j] over pw[i] instead of exchanging the two
Swap_copy(pw, a, b) == [pw EXCEPT ![a] = pw[b]]

\* [pw[i], pw[j]] = [pw[j], pw[i]]
Swap(pw, a, b) == [pw EXCEPT ![a] = pw[b], ![b] = pw[a]]

\* the Fisher-Yates loop: i runs from pw.length - 1 down to 1 (0-based),
\* t is the next unread position of the tape
RECURSIVE Shuffle(_, _, _, _)
Shuffle(pw, i, tape, t) ==
  IF i <= 0 THEN pw
  ELSE LET j == (tape[t] * (i + 1)) \div RandLevels
       IN Shuffle(Swap(pw, i + 1, j + 1), i - 1, tape, t + 1)

\* a variant without the floor
PwLength_noFloor(length) == length

\* if (length < 8) length = 8
PwLength(length) == IF length < MIN_PW_LEN THEN MIN_PW_LEN ELSE length

\* number of Math.random() calls generatePassword(length) makes
TapeLen(length) == 2 * PwLength(length) - 1

\* while (pw.length < length) pw.push(pick(all))
RECURSIVE Fill(_, _, _)
Fill(pw, length, tape) ==
  IF Len(pw) < length
  THEN Fill(Append(pw, pick(LOWER \o UPPER \o DIGITS \o SPECIAL, tape[Len(pw) + 1])),
            length, tape)
  ELSE pw

\* pw before the shuffle: one character of each class, then the filling
Picks(length, tape) ==
  Fill(<<pick(LOWER, tape[1]), pick(UPPER, tape[2]), pick(DIGITS, tape[3]),
         pick(SPECIAL, tape[4])>>, length, tape)

generatePassword(length, tape) ==
  LET pw == Picks(PwLength(length), tape)
  IN Shuffle(pw, Len(pw) - 1, tape, Len(pw) + 1)

(***************************************************************************)
(* Entries and the store operations of the flows.                          *)
(***************************************************************************)
\* deprecatedAt of an entry that has no such property
NoDate == -1

NewEntry(id, name, secret, t) ==
  [id |-> id, name |-> name, secret |-> secret, createdAt |-> t,
   deprecated |-> FALSE, deprecatedAt |-> NoDate]

\* a variant that sets the flag and forgets the date
deprecateEntry_noDate(e, t) == [e EXCEPT !.deprecated = TRUE]

deprecateEntry(e, t) == [e EXCEPT !.deprecated = TRUE, !.deprecatedAt = t]

\* store.entries.find(e => e.id === id): index of the first match, 0 if none
RECURSIVE FindFrom(_, _, _)
FindFrom(entries, id, i) ==
  IF i > Len(entries) THEN 0
  ELSE IF entries[i].id = id THEN i
  ELSE FindFrom(entries, id, i + 1)

FindById(entries, id) == FindFrom(entries, id, 1)

\* store.entries.filter(e => !e.deprecated) / filter(e => e.deprecated)
ActiveOf(entries) == LET T(e) == ~e.deprecated IN SelectSeq(entries, T)
DeprecatedOf(entries) == LET T(e) == e.deprecated IN SelectSeq(entries, T)

\* [...new Set(store.entries.map(e => e.name))]
NamesOf(entries) == {entries[i].name : i \in 1..Len(entries)}

\* a variant that takes the place of an active entry of the same name
GenerateStore_replace(entries, id, name, secret, t) ==
  LET T(e) == e.name # Trim(name) \/ e.deprecated
  IN Append(SelectSeq(entries, T), NewEntry(id, Trim(name), secret, t))

\* generateFlow: store.entries.push({...})
GenerateStore(entries, id, name, secret, t) ==
  Append(entries, NewEntry(id, Trim(name), secret, t))

\* a variant that drops the old entry instead of keeping it deprecated
RotateStore_dropOld(entries, idx, id, secret, tDep, tNew) ==
  LET T(e) == e.id # entries[idx].id
  IN Append(SelectSeq(entries, T), NewEntry(id, entries[idx].name, secret, tNew))

\* a variant that gives the new entry the id of the old one
RotateStore_sameId(entries, idx, id, secret, tDep, tNew) ==
  Append([entries EXCEPT ![idx] = deprecateEntry(entries[idx], tDep)],
         NewEntry(entries[idx].id, entries[idx].name, secret, tNew))

\* getFlow, 'Deprecate+new': deprecateEntry(entry); store.entries.push({...})
RotateStore(entries, idx, id, secret, tDep, tNew) ==
  Append([entries EXCEPT ![idx] = deprecateEntry(entries[idx], tDep)],
         NewEntry(id, entries[idx].name, secret, tNew))

\* a variant that keeps the corrupted entry, deprecated, as a rotation would
ReplaceStore_keepOld(s2, entry, id, secret, t) ==
  Append([i \in 1..Len(s2) |->
            IF s2[i].id = entry.id THEN deprecateEntry(s2[i], t) ELSE s2[i]],
         NewEntry(id, entry.name, secret, t))

\* a variant that removes every entry of the corrupted entry's name
ReplaceStore_byName(s2, entry, id, secret, t) ==
  LET T(e) == e.name # entry.name
  IN Append(SelectSeq(s2, T), NewEntry(id, entry.name, secret, t))

\* getFlow, 'Delete & new': s2.entries.filter(e => e.id !== entry.id); push
ReplaceStore(s2, entry, id, secret, t) ==
  LET T(e) == e.id # entry.id
  IN Append(SelectSeq(s2, T), NewEntry(id, entry.name, secret, t))

\* a variant that removes only the active entries of the name
DeleteStore_activeOnly(entries, name) ==
  LET T(e) == e.name # name \/ e.deprecated IN SelectSeq(entries, T)

\* deleteFlow: store.entries.filter(e => e.name !== name)
DeleteStore(entries, name) ==
  LET T(e) == e.name # name IN SelectSeq(entries, T)

\* loadStore: the entries read, and the file as loadStore leaves it
LoadEntries(d) == IF d.exists THEN d.entries ELSE <<>>

\* a variant that returns the empty store without writing the file
AfterLoad_noCreate(d) == d

\* a variant that writes {entries: []} without looking for the file first
AfterLoad_reset(d) == [exists |-> TRUE, entries |-> <<>>]

AfterLoad(d) == [exists |-> TRUE, entries |-> LoadEntries(d)]

\* saveStore
Saved(entries) == [exists |-> TRUE, entries |-> entries]

(***************************************************************************)
(* Input sets.                                                             *)
(***************************************************************************)
\* outcomes of crypto.randomBytes(32) and of crypto.randomBytes(IV_LEN)
Key(k) == [i \in 1..KEY_LEN |-> (k * 37 + i) % 256]
IV(r) == [i \in 1..IV_LEN |-> (r * 53 + i * 11) % 256]
Keys == {Key(1), Key(2)}
IVs == {IV(1)}

\* outcomes of crypto.randomBytes(IV_LEN) in a second encryptText call: the
\* bytes of the first call again, or others
RedrawIVs == {IV(1), IV(2)}

\* the key initSetup generates in a session
SetupKeys == {Key(1)}

\* outcomes of the Math.random() calls of one generatePassword(12)
Tape(r) == [i \in 1..TapeLen(DEFAULT_PW_LEN) |-> (r * i) % RandLevels]
Tapes == {Tape(1)}

\* SpecGen: the lengths asked for, negative ones and 0 included, and the
\* outcomes of the Math.random() calls (level b first, then a further each
\* call; a = 0 gives the constant tapes, among them all-lowest and
\* all-highest)
RequestedLengths == (0 - 2)..MaxPwLen
GenTape(a, b) == [i \in 1..(2 * MaxPwLen) |-> (a * i + b) % RandLevels]
GenTapes == {GenTape(a, b) : a \in 0..(RandLevels - 1), b \in 0..(RandLevels - 1)}

\* what the user types: "p", "q", " " as passwords ("p", " " when setting
\* one); "a", " a", "b", " " as names
PasswordInputs == {<<112>>, <<113>>, <<SPACE>>}
SetupInputs == {<<112>>, <<SPACE>>}
NameInputs == {<<97>>, <<SPACE, 97>>, <<98>>, <<SPACE>>}

\* code units of the plaintexts of SpecCrypto: 'a', the euro sign, and the
\* two halves of a surrogate pair
PlainUnits == {97, 8364, 55357, 56832}

RECURSIVE SeqsUpTo(_, _)
SeqsUpTo(S, n) ==
  IF n = 0 THEN {<<>>}
  ELSE LET shorter == SeqsUpTo(S, n - 1)
       IN shorter \cup {Append(q, x) : q \in {r \in shorter : Len(r) = n - 1}, x \in S}

Plaintexts == SeqsUpTo(PlainUnits, MaxPlainLen)

(***************************************************************************)
(* State.                                                                  *)
(***************************************************************************)
VARIABLES
  args,        \* process.argv[2]: "init" or "none"
  config,      \* the config file: [state, appPassword, encryptionKey]
  disk,        \* the store file: [exists, entries]
  pc,          \* where the process is: the prompt it waits at, or its end
  pwd,         \* initAuth: the password submitted
  masterKey,   \* the module-level masterKey (<<>> until set)
  exitCode,    \* -1 while running
  message,     \* the error message printed before exiting, "none" if none
  store,       \* the current flow's `store.entries`
  entry,       \* the current flow's `entry`: its index in store, 0 if none
  name,        \* deleteFlow's `name`
  nextId,      \* the next value crypto.randomUUID() returns
  now,         \* the number of readings of the clock so far
  seen,        \* history: which of "menu", "flow", "crypto" has happened
  lastOp,      \* history: the operation the last flow step performed
  before,      \* history: the store file's entries before lastOp's save
  reported,    \* history: the count the last delete printed
  snapshot,    \* history: the store file as the current flow loaded it
  overwrote,   \* history: a save replaced a file that had changed since the load
  plain,       \* SpecCrypto: the plaintext
  payload,     \* SpecCrypto: the payload handed to decryptText
  original,    \* SpecCrypto: the payload encryptText returned
  result,      \* SpecCrypto: what decryptText did
  drawn,       \* SpecCrypto: the nonces the encryptText calls drew, in order
  genLength,   \* SpecGen: the length asked of generatePassword
  genTape,     \* SpecGen: the outcomes of its Math.random() calls
  generated    \* SpecGen: the password it returned

sessionVars == <<args, config, disk, pc, pwd, exitCode, message, store, entry,
                 name, nextId, now, seen, lastOp, before, reported, snapshot,
                 overwrote>>
cryptoVars == <<plain, payload, original, result, drawn>>
genVars == <<genLength, genTape, generated>>
vars == <<sessionVars, cryptoVars, genVars, masterKey>>

NoConfig == [state |-> "absent", appPassword |-> <<>>, encryptionKey |-> <<>>]
CorruptConfig == [state |-> "corrupt", appPassword |-> <<>>, encryptionKey |-> <<>>]
OkConfig(p, k) == [state |-> "ok", appPassword |-> p, encryptionKey |-> k]

NoFile == [exists |-> FALSE, entries |-> <<>>]
NoResult == [ok |-> FALSE, error |-> "notrun", text |-> <<>>]

\* config files a run can find: none, an unparseable one, and parseable
\* ones whose key is 32 bytes, 31 bytes or 33 bytes long
InitialConfigs ==
  {NoConfig, CorruptConfig}
    \cup {OkConfig(<<112>>, Base64Encode(k)) : k \in SetupKeys}
    \cup {OkConfig(<<112>>, Base64Encode(SubSeq(k, 1, KEY_LEN - 1))) : k \in SetupKeys}
    \cup {OkConfig(<<112>>, Base64Encode(k \o <<7>>)) : k \in SetupKeys}

CryptoIdle ==
  /\ plain = <<>>
  /\ payload = <<>>
  /\ original = <<>>
  /\ result = NoResult
  /\ drawn = <<>>

GenIdle ==
  /\ genLength = DEFAULT_PW_LEN
  /\ genTape = <<>>
  /\ generated = <<>>

SessionIdle(at) ==
  /\ pc = at
  /\ pwd = <<>>
  /\ exitCode = -1
  /\ message = "none"
  /\ store = <<>>
  /\ entry = 0
  /\ name = <<>>
  /\ nextId = 1
  /\ now = 0
  /\ seen = {}
  /\ lastOp = "none"
  /\ before = <<>>
  /\ reported = 0
  /\ snapshot = NoFile
  /\ overwrote = FALSE

Init ==
  /\ args \in {"init", "none"}
  /\ config \in InitialConfigs
  /\ disk = NoFile
  /\ masterKey = <<>>
  /\ SessionIdle("start")
  /\ CryptoIdle
  /\ GenIdle

(***************************************************************************)
(* Start-up: the wrapper, initSetup, initAuth, initEncryptionKey.          *)
(***************************************************************************)
\* a variant that lets every password through
PasswordAccepted_any(input, appPassword) == TRUE

\* initAuth: pwd !== appPassword exits
PasswordAccepted(input, appPassword) == input = appPassword

\* initEncryptionKey: buf.length !== 32 exits
KeyAccepted(buf) == Len(buf) = KEY_LEN

\* new Date(): every reading is later than the one before (`from` counts
\* the readings so far)
ClockRead(from) == from + 1

untouchedByStartup ==
  <<args, disk, store, entry, name, nextId, now, lastOp, before,
    reported, snapshot, overwrote, cryptoVars, genVars>>

\* the wrapper up to the first prompt.  loadConfig throws on a config file
\* that does not parse; nothing catches it and the process ends
Startup ==
  /\ pc = "start"
  /\ IF args = "init" THEN
       /\ pc' = "initPrompt"
       /\ UNCHANGED <<exitCode, message>>
     ELSE IF config.state = "absent" THEN
       /\ pc' = "autoInitPrompt"
       /\ UNCHANGED <<exitCode, message>>
     ELSE IF config.state = "corrupt" THEN
       /\ pc' = "crashed"
       /\ exitCode' = 1
       /\ message' = "uncaught"
     ELSE
       /\ pc' = "authPrompt"
       /\ UNCHANGED <<exitCode, message>>
  /\ UNCHANGED <<config, pwd, masterKey, seen>>
  /\ UNCHANGED untouchedByStartup

\* initSetup once its two prompts are answered: the password is not blank
\* and was confirmed; the key is 32 random bytes in base64
initSetup(password, key) ==
  /\ pc \in {"initPrompt", "autoInitPrompt"}
  /\ Trim(password) # <<>>
  /\ config' = OkConfig(password, Base64Encode(key))
  /\ IF pc = "initPrompt" THEN
       /\ pc' = "exited"
       /\ exitCode' = 0
     ELSE
       /\ pc' = "authPrompt"
       /\ UNCHANGED exitCode
  /\ UNCHANGED <<pwd, masterKey, seen, message>>
  /\ UNCHANGED untouchedByStartup

\* initAuth after its prompt, then initEncryptionKey and the first mainMenu
initAuth(input) ==
  /\ pc = "authPrompt"
  /\ pwd' = input
  /\ IF ~PasswordAccepted(input, config.appPassword) THEN
       /\ pc' = "exited"
       /\ exitCode' = 1
       /\ message' = "invalidPassword"
       /\ UNCHANGED <<masterKey, seen>>
     ELSE LET buf == Base64Decode(config.encryptionKey) IN
       IF ~KeyAccepted(buf) THEN
         /\ pc' = "exited"
         /\ exitCode' = 1
         /\ message' = "invalidKey"
         /\ UNCHANGED <<masterKey, seen>>
       ELSE
         /\ masterKey' = buf
         /\ pc' = "menu"
         /\ seen' = seen \cup {"menu"}
         /\ UNCHANGED <<exitCode, message>>
  /\ UNCHANGED config
  /\ UNCHANGED untouchedByStartup

(***************************************************************************)
(* mainMenu and the flows.  Every action is the code between two prompts.  *)
(***************************************************************************)
fixed == <<args, config, pwd, masterKey, cryptoVars, genVars>>

\* loadStore() at the head of a flow
Load ==
  /\ store' = LoadEntries(disk)
  /\ disk' = AfterLoad(disk)
  /\ snapshot' = AfterLoad(disk)

\* saveStore(entries) by the flow that loaded `snapshot`
Save(entries, op) ==
  /\ disk' = Saved(entries)
  /\ before' = disk.entries
  /\ lastOp' = op
  /\ overwrote' = (overwrote \/ disk # snapshot)

\* a flow returns to mainMenu: its locals are gone
Return ==
  /\ pc' = "menu"
  /\ store' = <<>>
  /\ entry' = 0
  /\ name' = <<>>
  /\ snapshot' = NoFile

\* process.exit(0)
Exit0 ==
  /\ pc' = "exited"
  /\ exitCode' = 0

\* mainMenu, 'Generate': generateFlow up to its prompt
MenuGenerate ==
  /\ pc = "menu"
  /\ Len(LoadEntries(disk)) < MaxEntries
  /\ nextId <= MaxIds
  /\ Load
  /\ pc' = "genName"
  /\ seen' = seen \cup {"flow"}
  /\ lastOp' = "none"
  /\ before' = <<>>
  /\ UNCHANGED <<exitCode, message, entry, name, nextId, now, reported,
                 overwrote>>
  /\ UNCHANGED fixed

\* generateFlow after the name prompt (validate: the name is not blank)
generateFlow(input, tape, iv) ==
  /\ pc = "genName"
  /\ Trim(input) # <<>>
  /\ Len(store) < MaxEntries
  /\ nextId <= MaxIds
  /\ LET t   == ClockRead(now)
         enc == encryptText(masterKey, generatePassword(DEFAULT_PW_LEN, tape), iv)
         new == GenerateStore(store, nextId, input, enc, t)
     IN /\ store' = new
        /\ Save(new, "generate")
        /\ now' = t
  /\ nextId' = nextId + 1
  /\ seen' = seen \cup {"crypto"}
  /\ pc' = "pause"
  /\ UNCHANGED <<exitCode, message, entry, name, reported, snapshot>>
  /\ UNCHANGED fixed

\* mainMenu, 'Get': getFlow up to its first prompt
MenuGet ==
  /\ pc = "menu"
  /\ Load
  /\ pc' = IF ActiveOf(LoadEntries(disk)) = <<>> THEN "pause" ELSE "getSelect"
  /\ seen' = seen \cup {"flow"}
  /\ lastOp' = "none"
  /\ before' = <<>>
  /\ UNCHANGED <<exitCode, message, entry, name, nextId, now, reported,
                 overwrote>>
  /\ UNCHANGED fixed

\* getFlow after 'Select entry': find the entry, try to decrypt it
getFlowSelect(id) ==
  /\ pc = "getSelect"
  /\ \E i \in 1..Len(store) : ~store[i].deprecated /\ store[i].id = id
  /\ entry' = FindById(store, id)
  /\ \E short \in BOOLEAN :
       LET r == decryptText(masterKey, store[FindById(store, id)].secret, short)
       IN IF r.ok
          THEN pc' = "getNext" /\ lastOp' = "decrypted"
          ELSE pc' = "getError" /\ lastOp' = "decryptFailed"
  /\ seen' = seen \cup {"crypto"}
  /\ UNCHANGED <<disk, exitCode, message, store, name, nextId, now, before,
                 reported, snapshot, overwrote>>
  /\ UNCHANGED fixed

\* 'Handle corrupted entry?' answered 'Back'
getFlowErrorBack ==
  /\ pc = "getError"
  /\ Return
  /\ lastOp' = "errorBack"
  /\ before' = disk.entries
  /\ UNCHANGED <<disk, exitCode, message, nextId, now, seen, reported, overwrote>>
  /\ UNCHANGED fixed

\* 'Handle corrupted entry?' answered 'Delete & new'
getFlowErrorRegen(tape, iv) ==
  /\ pc = "getError"
  /\ nextId <= MaxIds
  /\ LET t   == ClockRead(now)
         s2  == LoadEntries(disk)
         enc == encryptText(masterKey, generatePassword(DEFAULT_PW_LEN, tape), iv)
         new == ReplaceStore(s2, store[entry], nextId, enc, t)
     IN /\ disk' = Saved(new)
        /\ before' = s2
        /\ now' = t
  /\ lastOp' = "replace"
  /\ snapshot' = AfterLoad(disk)
  /\ nextId' = nextId + 1
  /\ pc' = "pause"
  /\ UNCHANGED <<exitCode, message, store, entry, name, seen, reported, overwrote>>
  /\ UNCHANGED fixed

\* 'Next?' answered 'Deprecate+new'
getFlowRegen(tape, iv) ==
  /\ pc = "getNext"
  /\ Len(store) < MaxEntries
  /\ nextId <= MaxIds
  /\ LET tDep == ClockRead(now)
         tNew == ClockRead(tDep)
         enc  == encryptText(masterKey, generatePassword(DEFAULT_PW_LEN, tape), iv)
         new  == RotateStore(store, entry, nextId, enc, tDep, tNew)
     IN /\ store' = new
        /\ Save(new, "rotate")
        /\ now' = tNew
  /\ nextId' = nextId + 1
  /\ pc' = "pause"
  /\ UNCHANGED <<exitCode, message, entry, name, seen, reported, snapshot>>
  /\ UNCHANGED fixed

\* 'Next?' answered 'Show deprecated': showDeprecated up to its prompt
getFlowShowOld ==
  /\ pc = "getNext"
  /\ Load
  /\ pc' = IF DeprecatedOf(LoadEntries(disk)) = <<>> THEN "pause" ELSE "showSelect"
  /\ lastOp' = "none"
  /\ UNCHANGED <<exitCode, message, entry, name, nextId, now, seen, before,
                 reported, overwrote>>
  /\ UNCHANGED fixed

\* 'Next?' answered 'Back'
getFlowBack ==
  /\ pc = "getNext"
  /\ Return
  /\ lastOp' = "back"
  /\ before' = disk.entries
  /\ UNCHANGED <<disk, exitCode, message, nextId, now, seen, reported, overwrote>>
  /\ UNCHANGED fixed

\* 'Next?' answered 'Exit'
getFlowExit ==
  /\ pc = "getNext"
  /\ Exit0
  /\ UNCHANGED <<disk, message, store, entry, name, nextId, now, seen, lastOp,
                 before, reported, snapshot, overwrote>>
  /\ UNCHANGED fixed

\* showDeprecated after 'Select deprecated': decryptText is not inside a
\* try, so its exception leaves showDeprecated, getFlow, mainMenu and the
\* wrapper, and the process ends
showDeprecated(id) ==
  /\ pc = "showSelect"
  /\ \E i \in 1..Len(store) : store[i].deprecated /\ store[i].id = id
  /\ entry' = FindById(store, id)
  /\ \E short \in BOOLEAN :
       LET r == decryptText(masterKey, store[FindById(store, id)].secret, short)
       IN IF r.ok
          THEN /\ pc' = "pause"
               /\ lastOp' = "shown"
               /\ UNCHANGED <<exitCode, message>>
          ELSE /\ pc' = "crashed"
               /\ lastOp' = "decryptFailed"
               /\ exitCode' = 1
               /\ message' = "uncaught"
  /\ UNCHANGED <<disk, store, name, nextId, now, seen, before, reported,
                 snapshot, overwrote>>
  /\ UNCHANGED fixed

\* mainMenu, 'Delete site': deleteFlow up to its first prompt
MenuDelete ==
  /\ pc = "menu"
  /\ Load
  /\ pc' = IF NamesOf(LoadEntries(disk)) = {} THEN "pause" ELSE "delSelect"
  /\ seen' = seen \cup {"flow"}
  /\ lastOp' = "none"
  /\ before' = <<>>
  /\ UNCHANGED <<exitCode, message, entry, name, nextId, now, reported,
                 overwrote>>
  /\ UNCHANGED fixed

\* deleteFlow after 'Select site to delete'
deleteFlowSelect(n) ==
  /\ pc = "delSelect"
  /\ n \in NamesOf(store)
  /\ name' = n
  /\ pc' = "delConfirm"
  /\ UNCHANGED <<disk, exitCode, message, store, entry, nextId, now, seen, lastOp,
                 before, reported, snapshot, overwrote>>
  /\ UNCHANGED fixed

\* deleteFlow after the confirmation
deleteFlow(confirm) ==
  /\ pc = "delConfirm"
  /\ IF ~confirm THEN
       /\ Return
       /\ lastOp' = "deleteDeclined"
       /\ before' = disk.entries
       /\ UNCHANGED <<disk, reported, overwrote>>
     ELSE
       /\ store' = DeleteStore(store, name)
       /\ Save(DeleteStore(store, name), "delete")
       /\ reported' = Len(store) - Len(DeleteStore(store, name))
       /\ pc' = "pause"
            /\ UNCHANGED <<entry, name, snapshot>>
  /\ UNCHANGED <<exitCode, message, nextId, now, seen>>
  /\ UNCHANGED fixed

\* mainMenu, 'Exit'
MenuExit ==
  /\ pc = "menu"
  /\ Exit0
  /\ UNCHANGED <<disk, message, store, entry, name, nextId, now, seen, lastOp,
                 before, reported, snapshot, overwrote>>
  /\ UNCHANGED fixed

\* pause(), then mainMenu again
pause ==
  /\ pc = "pause"
  /\ Return
  /\ lastOp' = "none"
  /\ before' = <<>>
  /\ reported' = 0
  /\ UNCHANGED <<disk, exitCode, message, nextId, now, seen, overwrote>>
  /\ UNCHANGED fixed

(***************************************************************************)
(* The store file is an ordinary file: something other than this process   *)
(* can damage a stored secret.                                             *)
(***************************************************************************)
\* one hex digit of the tag replaced by the next digit
CorruptSecret(secret) ==
  [secret EXCEPT ![Len(secret)] = HexDigits[((HexVal(secret[Len(secret)]) + 1) % 16) + 1]]

\* an intact secret of the store file is damaged while the menu is shown
ExternalCorrupt(i) ==
  /\ pc = "menu"
  /\ disk.exists
  /\ i \in 1..Len(disk.entries)
  /\ \A short \in BOOLEAN : decryptText(masterKey, disk.entries[i].secret, short).ok
  /\ disk' = [disk EXCEPT !.entries[i].secret = CorruptSecret(@)]
  /\ lastOp' = "external"
  /\ before' = <<>>
  /\ UNCHANGED <<pc, exitCode, message, store, entry, name, nextId, now, seen,
                 reported, snapshot, overwrote>>
  /\ UNCHANGED fixed

Next ==
  \/ Startup
  \/ \E p \in SetupInputs, k \in SetupKeys : initSetup(p, k)
  \/ \E p \in PasswordInputs : initAuth(p)
  \/ MenuGenerate
  \/ \E n \in NameInputs, tape \in Tapes, iv \in IVs : generateFlow(n, tape, iv)
  \/ MenuGet
  \/ \E id \in 1..MaxIds : getFlowSelect(id)
  \/ getFlowErrorBack
  \/ \E tape \in Tapes, iv \in IVs : getFlowErrorRegen(tape, iv)
  \/ \E tape \in Tapes, iv \in IVs : getFlowRegen(tape, iv)
  \/ getFlowShowOld
  \/ getFlowBack
  \/ getFlowExit
  \/ \E id \in 1..MaxIds : showDeprecated(id)
  \/ MenuDelete
  \/ \E n \in {Trim(x) : x \in NameInputs} : deleteFlowSelect(n)
  \/ \E c \in BOOLEAN : deleteFlow(c)
  \/ MenuExit
  \/ pause
  \/ \E i \in 1..MaxEntries : ExternalCorrupt(i)

Spec == Init /\ [][Next]_vars

(***************************************************************************)
(* SpecConc: Spec with a second writer of the store file (another session  *)
(* or an editor) that adds an entry while this session waits at a prompt   *)
(* of a flow.                                                              *)
(***************************************************************************)
FlowPrompts ==
  {"genName", "getSelect", "getError", "getNext", "showSelect", "delSelect",
   "delConfirm"}

ExternalAppend(n, tape, iv) ==
  /\ pc \in FlowPrompts
  /\ disk.exists
  /\ Len(disk.entries) < MaxEntries
  /\ nextId <= MaxIds
  /\ LET enc == encryptText(masterKey, generatePassword(DEFAULT_PW_LEN, tape), iv)
     IN disk' = Saved(Append(disk.entries, NewEntry(nextId, n, enc, now)))
  /\ nextId' = nextId + 1
  /\ UNCHANGED <<pc, exitCode, message, store, entry, name, now, seen, lastOp,
                 before, reported, snapshot, overwrote>>
  /\ UNCHANGED fixed

NextConc ==
  \/ Next
  \/ \E tape \in Tapes, iv \in IVs : ExternalAppend(<<98>>, tape, iv)

SpecConc == Init /\ [][NextConc]_vars

(***************************************************************************)
(* SpecCrypto: encryptText and decryptText on their own.  The key and the *)
(* plaintext are drawn at the start; the payload may be changed in one     *)
(* character of its ciphertext or tag before it is decrypted.              *)
(***************************************************************************)
FlipCase(c) ==
  IF c >= 97 /\ c <= 122 THEN c - 32
  ELSE IF c >= 65 /\ c <= 90 THEN c + 32
  ELSE c

\* what one character of a payload can be changed to: the same letter in
\* the other case, the next hex digit, and 'g' (no hex digit)
TamperChars(c) ==
  {FlipCase(c), HexDigits[((HexVal(c) + 1) % 16) + 1], 103} \ {c}

\* positions of the ciphertext and tag components of a payload
TamperPositions(p) == {i \in (IndexOf(p, COLON) + 1)..Len(p) : p[i] # COLON}

InitCrypto ==
  /\ args = "none"
  /\ config = NoConfig
  /\ disk = NoFile
  /\ masterKey \in Keys
  /\ SessionIdle("cInput")
  /\ plain \in Plaintexts
  /\ payload = <<>>
  /\ original = <<>>
  /\ result = NoResult
  /\ drawn = <<>>
  /\ GenIdle

CryptoEncrypt(iv) ==
  /\ pc = "cInput"
  /\ original' = encryptText(masterKey, plain, iv)
  /\ payload' = encryptText(masterKey, plain, iv)
  /\ drawn' = <<iv>>
  /\ pc' = "cEncrypted"
  /\ UNCHANGED <<plain, result, masterKey, genVars>>
  /\ UNCHANGED <<args, config, disk, pwd, exitCode, message, store, entry, name,
                 nextId, now, seen, lastOp, before, reported, snapshot,
                 overwrote>>

\* encryptText called once more on the same plaintext
CryptoEncryptAgain(iv) ==
  /\ pc = "cEncrypted"
  /\ payload = original
  /\ payload' = encryptText(masterKey, plain, iv)
  /\ drawn' = Append(drawn, iv)
  /\ pc' = "cEncryptedTwice"
  /\ UNCHANGED <<plain, original, result, masterKey, genVars>>
  /\ UNCHANGED <<args, config, disk, pwd, exitCode, message, store, entry, name,
                 nextId, now, seen, lastOp, before, reported, snapshot,
                 overwrote>>

CryptoTamper(pos, ch) ==
  /\ pc = "cEncrypted"
  /\ payload = original
  /\ pos \in TamperPositions(payload)
  /\ ch \in TamperChars(payload[pos])
  /\ payload' = [payload EXCEPT ![pos] = ch]
  /\ UNCHANGED <<plain, original, result, drawn, masterKey, genVars>>
  /\ UNCHANGED sessionVars

\* payloads that are not three hex components: a fourth component added,
\* the tag component missing, a character that is no hex digit after the
\* tag, and one before the nonce
MalformKinds == {"extra", "fewer", "tail", "ivPrefix"}

Malform(p, kind) ==
  IF kind = "extra" THEN p \o <<COLON, 48, 48>>
  ELSE IF kind = "fewer" THEN Join(SubSeq(Split(p, COLON), 1, 2), COLON)
  ELSE IF kind = "tail" THEN p \o <<103>>
  ELSE <<103>> \o p

CryptoMalform(kind) ==
  /\ pc = "cEncrypted"
  /\ payload = original
  /\ payload' = Malform(payload, kind)
  /\ pc' = "cMalformed"
  /\ UNCHANGED <<plain, original, result, drawn, masterKey, genVars>>
  /\ UNCHANGED <<args, config, disk, pwd, exitCode, message, store, entry, name,
                 nextId, now, seen, lastOp, before, reported, snapshot,
                 overwrote>>

\* decryptText on the payload as it is now ("cParsed": it was malformed)
CryptoDecrypt(short) ==
  /\ pc \in {"cEncrypted", "cMalformed"}
  /\ result' = decryptText(masterKey, payload, short)
  /\ pc' = IF pc = "cEncrypted" THEN "cDecrypted" ELSE "cParsed"
  /\ UNCHANGED <<plain, payload, original, drawn, masterKey, genVars>>
  /\ UNCHANGED <<args, config, disk, pwd, exitCode, message, store, entry, name,
                 nextId, now, seen, lastOp, before, reported, snapshot,
                 overwrote>>

\* longest payload of SpecCrypto: iv, ':', ciphertext, ':', tag in hex
MaxPayloadLen == 2 * IV_LEN + 1 + 2 * (3 * MaxPlainLen) + 1 + 2 * TAG_LEN

NextCrypto ==
  \/ \E iv \in IVs : CryptoEncrypt(iv)
  \/ \E iv \in RedrawIVs : CryptoEncryptAgain(iv)
  \/ \E pos \in 1..MaxPayloadLen, ch \in 48..103 : CryptoTamper(pos, ch)
  \/ \E kind \in MalformKinds : CryptoMalform(kind)
  \/ \E short \in BOOLEAN : CryptoDecrypt(short)

SpecCrypto == InitCrypto /\ [][NextCrypto]_vars

(***************************************************************************)
(* SpecGen: generatePassword on its own.  The length asked for and the     *)
(* outcomes of Math.random() are drawn at the start.                       *)
(***************************************************************************)
InitGen ==
  /\ args = "none"
  /\ config = NoConfig
  /\ disk = NoFile
  /\ masterKey = <<>>
  /\ SessionIdle("gInput")
  /\ CryptoIdle
  /\ genLength \in RequestedLengths
  /\ genTape \in GenTapes
  /\ generated = <<>>

GenCall ==
  /\ pc = "gInput"
  /\ generated' = generatePassword(genLength, genTape)
  /\ pc' = "gDone"
  /\ UNCHANGED <<genLength, genTape, masterKey, cryptoVars>>
  /\ UNCHANGED <<args, config, disk, pwd, exitCode, message, store, entry, name,
                 nextId, now, seen, lastOp, before, reported, snapshot,
                 overwrote>>

NextGen == GenCall

SpecGen == InitGen /\ [][NextGen]_vars

(***************************************************************************)
(* C1..C10.                                                                *)
(***************************************************************************)
StartupPcs == {"start", "initPrompt", "autoInitPrompt", "authPrompt"}
EndPcs == {"exited", "crashed"}

\* both checks of the gate, on the configuration the run read
AuthChecksPassed ==
  /\ config.state = "ok"
  /\ pwd = config.appPassword
  /\ Len(Base64Decode(config.encryptionKey)) = KEY_LEN

\* C1: the menu is shown, a flow is entered and encryptText / decryptText
\* are called only in runs whose submitted password equals appPassword and
\* whose encryptionKey decodes to exactly 32 bytes; a run that failed a
\* check has ended without showing the menu.
C1_GateBeforeFlows ==
  /\ (seen # {} \/ pc \notin (StartupPcs \cup EndPcs)) => AuthChecksPassed
  /\ (pc \notin StartupPcs /\ args = "none" /\ ~AuthChecksPassed)
       => (pc \in EndPcs /\ exitCode = 1 /\ seen = {} /\ masterKey = <<>>)

\* a secret was decrypted in a Get flow of an authenticated session
C1_Witness ==
  /\ pc = "getNext"
  /\ "crypto" \in seen
  /\ AuthChecksPassed

\* no unpaired surrogate
WellFormed(s) ==
  \A i \in 1..Len(s) :
    /\ IsHighSurrogate(s[i]) => (i < Len(s) /\ IsLowSurrogate(s[i + 1]))
    /\ IsLowSurrogate(s[i]) => (i > 1 /\ IsHighSurrogate(s[i - 1]))

\* C2 as stated: decrypting what encryptText returned gives back the
\* plaintext, for every string.
C2_RoundTrip ==
  (pc = "cDecrypted" /\ payload = original)
    => (result.ok /\ result.text = plain)

\* C2, amended: decrypting what encryptText returned gives back the
\* plaintext, for every string without an unpaired surrogate.
C2_RoundTripWellFormed ==
  (pc = "cDecrypted" /\ payload = original /\ WellFormed(plain))
    => (result.ok /\ result.text = plain)

\* a surrogate pair went through encryptText and decryptText
C2_Witness ==
  /\ pc = "cDecrypted"
  /\ payload = original
  /\ plain = <<55357, 56832>>
  /\ result.ok
  /\ result.text = plain

\* C3: decryptText throws for every payload that differs from what
\* encryptText returned in one character of its ciphertext or tag.
C3_TamperDetected ==
  (pc = "cDecrypted" /\ payload # original) => ~result.ok

Active(e) == ~e.deprecated

\* C4: after a rotation the store file holds the old entry, unchanged but
\* for deprecated = true and a deprecatedAt, every other entry unchanged,
\* and one more entry at the end: active, same name, another id.
C4_Rotate ==
  (pc = "pause" /\ lastOp = "rotate") =>
    LET after == disk.entries
        old   == before[entry]
        new   == after[Len(after)]
    IN /\ Len(after) = Len(before) + 1
       /\ Active(old)
       /\ after[entry].deprecated
       /\ after[entry].deprecatedAt # NoDate
       /\ after[entry].id = old.id
       /\ after[entry].name = old.name
       /\ after[entry].secret = old.secret
       /\ after[entry].createdAt = old.createdAt
       /\ \A j \in 1..Len(before) : j # entry => after[j] = before[j]
       /\ new.name = old.name
       /\ Active(new)
       /\ new.id # old.id

\* a rotation in a store that holds other entries too
C4_Witness ==
  /\ pc = "pause"
  /\ lastOp = "rotate"
  /\ Len(before) >= 2

\* C5: after a confirmed delete of a name no entry of that name is left,
\* the entries of other names are all there, unchanged and in their order,
\* and the count printed is the number of entries removed.
C5_Delete ==
  (pc = "pause" /\ lastOp = "delete") =>
    LET after == disk.entries
        Other(e) == e.name # name
        named == {i \in 1..Len(before) : before[i].name = name}
    IN /\ \A i \in 1..Len(after) : after[i].name # name
       /\ after = SelectSeq(before, Other)
       /\ Len(before) - Len(after) = Cardinality(named)
       /\ reported = Cardinality(named)

\* a delete that removed an active and a deprecated entry and left another
C5_Witness ==
  /\ pc = "pause"
  /\ lastOp = "delete"
  /\ reported = 2
  /\ \E i \in 1..Len(before) : before[i].name = name /\ before[i].deprecated
  /\ Len(disk.entries) = 1

\* on every build / on no build
Decrypts(e) == \A short \in BOOLEAN : decryptText(masterKey, e.secret, short).ok
Corrupted(e) == \A short \in BOOLEAN : ~decryptText(masterKey, e.secret, short).ok

\* C6, the outcomes: 'Back' leaves the store file as it was, the corrupted
\* entry included; 'Delete & new' removes the corrupted entry, keeps the
\* others and appends an active entry of the same name with another id and
\* a secret that decrypts.
C6_Outcomes ==
  /\ (pc = "menu" /\ lastOp = "errorBack") =>
       /\ disk.entries = before
       /\ \E i \in 1..Len(disk.entries) :
            Active(disk.entries[i]) /\ Corrupted(disk.entries[i])
  /\ (pc = "pause" /\ lastOp = "replace") =>
       LET after == disk.entries
           old   == store[entry]
           new   == after[Len(after)]
           Kept(e) == e.id # old.id
       IN /\ Corrupted(old)
          /\ \A i \in 1..Len(after) : after[i].id # old.id
          /\ SubSeq(after, 1, Len(after) - 1) = SelectSeq(before, Kept)
          /\ Len(after) = Len(before)
          /\ new.name = old.name
          /\ Active(new)
          /\ new.deprecatedAt = NoDate
          /\ Decrypts(new)

\* C6, the choice: the prompt after a failed decrypt is left by one of
\* these two outcomes only.
C6_Choice ==
  (pc = "getError" /\ pc' # pc) =>
    \/ pc' = "menu" /\ lastOp' = "errorBack"
    \/ pc' = "pause" /\ lastOp' = "replace"

\* C6: a failed decrypt in Get offers 'Back' and 'Delete & new', with the
\* effects above.
C6_ReplaceOnCorruption == []C6_Outcomes /\ [][C6_Choice]_vars

\* a corrupted entry was replaced in a store that holds other entries too
C6_Witness ==
  /\ pc = "pause"
  /\ lastOp = "replace"
  /\ Len(disk.entries) >= 2

\* C7: a decrypt that fails, in Get or in 'Show deprecated', leads to the
\* replace-on-corruption prompt and never ends the process.
C7_FailureHandled ==
  lastOp = "decryptFailed" => (pc = "getError" /\ exitCode = -1)

\* C8: a flow's saveStore never replaces a store file that another writer
\* changed after the flow read it, because the flow reads the file right
\* before it mutates and saves.
C8_SaveOnFreshRead == ~overwrote

\* C9: an entry has a deprecatedAt exactly when it is deprecated.
C9_DeprecatedAt ==
  /\ \A i \in 1..Len(disk.entries) :
       disk.entries[i].deprecated <=> disk.entries[i].deprecatedAt # NoDate
  /\ \A i \in 1..Len(store) :
       store[i].deprecated <=> store[i].deprecatedAt # NoDate

\* the store file holds a deprecated and an active entry
C9_Witness ==
  /\ \E i \in 1..Len(disk.entries) : disk.entries[i].deprecated
  /\ \E i \in 1..Len(disk.entries) : Active(disk.entries[i])

UniqueIds(entries) ==
  \A i, j \in 1..Len(entries) : i # j => entries[i].id # entries[j].id

\* C10: no two entries of the store share an id, so the entry found by id
\* is the one chosen from the list of active entries.
C10_UniqueIds ==
  /\ UniqueIds(disk.entries)
  /\ UniqueIds(store)
  /\ pc \in {"getNext", "getError"} =>
       /\ Active(store[entry])
       /\ \A i \in 1..Len(store) : store[i].id = store[entry].id => i = entry

\* an entry was selected in a store of three entries, one of them deprecated
C10_Witness ==
  /\ pc = "getNext"
  /\ Len(store) >= 3
  /\ \E i \in 1..Len(store) : store[i].deprecated

(***************************************************************************)
(* C11..C20.                                                               *)
(***************************************************************************)
EmptyStoreFile == [exists |-> TRUE, entries |-> <<>>]

\* the steps in which mainMenu starts a flow: each begins with loadStore()
FlowStarts == pc = "menu" /\ pc' \notin {"menu", "exited"}

\* C11, one loadStore: when there is no store file it writes one holding
\* {entries: []} and returns the empty store, without an error; a load of
\* that file leaves it as it is and returns the empty store again.
C11_Step ==
  FlowStarts =>
    /\ ~disk.exists => (disk' = EmptyStoreFile /\ store' = <<>>)
    /\ disk = EmptyStoreFile => (disk' = disk /\ store' = <<>>)
    /\ pc' \notin EndPcs
    /\ exitCode' = -1
    /\ message' = "none"

\* C11: loading the store when no store file exists creates the file with
\* an empty list of entries and returns that empty store, never an error,
\* and a later load returns the same empty store.
C11_LoadCreates == [][C11_Step]_vars

\* Get found no store file: the file now exists and holds no entries
C11_Witness ==
  /\ pc = "pause"
  /\ lastOp = "none"
  /\ snapshot = EmptyStoreFile
  /\ disk = EmptyStoreFile
  /\ nextId = 1

\* how often character c occurs in s
Count(s, c) == Cardinality({i \in 1..Len(s) : s[i] = c})

Has(s, class) == \E i \in 1..Len(s) : s[i] \in SeqRange(class)

\* C12: generatePassword(12) returns 12 characters, at least one of each
\* of the four classes and none outside them, and the shuffle only
\* reorders the characters picked.
C12_Classes ==
  (pc = "gDone" /\ genLength = DEFAULT_PW_LEN) =>
    /\ Len(generated) = 12
    /\ Has(generated, LOWER)
    /\ Has(generated, UPPER)
    /\ Has(generated, DIGITS)
    /\ Has(generated, SPECIAL)
    /\ \A i \in 1..Len(generated) :
         generated[i] \in SeqRange(LOWER) \cup SeqRange(UPPER)
                           \cup SeqRange(DIGITS) \cup SeqRange(SPECIAL)
    /\ Len(generated) = Len(Picks(12, genTape))
    /\ \A c \in SeqRange(generated) \cup SeqRange(Picks(12, genTape)) :
         Count(generated, c) = Count(Picks(12, genTape), c)

\* a password of 12 whose shuffle moved the four class characters away
\* from the front
C12_Witness ==
  /\ pc = "gDone"
  /\ genLength = DEFAULT_PW_LEN
  /\ generated # Picks(12, genTape)
  /\ generated[1] \notin SeqRange(LOWER)

\* C13: generatePassword(n) returns 8 characters for every n below 8 and
\* n characters for every n from 8 on.
C13_Length ==
  pc = "gDone" =>
    Len(generated) = IF genLength < 8 THEN 8 ELSE genLength

\* a password was asked for with a negative length
C13_Witness ==
  /\ pc = "gDone"
  /\ genLength < 0
  /\ Len(generated) = 8

IsHex(part) == \A i \in 1..Len(part) : HexVal(part[i]) >= 0

\* nonce_hex : ciphertext_hex : tag_hex
IsPayload(p) ==
  /\ Len(Split(p, COLON)) = 3
  /\ \A k \in 1..3 : IsHex(Split(p, COLON)[k])

\* C14: decryptText fails for every payload that is not exactly three
\* colon-delimited hex components; it never decrypts from a part of one.
C14_FormatError ==
  (pc \in {"cDecrypted", "cParsed"} /\ ~IsPayload(payload)) => ~result.ok

\* the message of line 90, the one that says to run `passwdm init` again
InstructsInit == message = "invalidKey"

\* C15: a run that finds an unparseable config file, or a key that does
\* not decode to 32 bytes, ends with exit code 1 after the message that
\* says to run init again; a wrong password ends it with exit code 1; exit
\* code 0 comes only from the explicit init and from an 'Exit' choice.
C15_ExitCodes ==
  /\ (pc \notin StartupPcs /\ args = "none" /\ config.state = "corrupt")
       => (pc \in EndPcs /\ exitCode = 1 /\ InstructsInit)
  /\ (pc \notin StartupPcs /\ args = "none" /\ config.state = "ok"
        /\ pwd = config.appPassword /\ ~KeyAccepted(Base64Decode(config.encryptionKey)))
       => (pc \in EndPcs /\ exitCode = 1 /\ InstructsInit)
  /\ (pc \notin StartupPcs /\ args = "none" /\ config.state = "ok"
        /\ pwd # config.appPassword)
       => (pc \in EndPcs /\ exitCode = 1 /\ message = "invalidPassword")
  /\ exitCode = 0 => (pc = "exited" /\ (args = "init" \/ "menu" \in seen))

\* C16 as stated: two encryptText calls under one key never draw the same
\* nonce, so the same plaintext never gives the same payload twice.
C16_NonceNeverReused ==
  pc = "cEncryptedTwice" => (drawn[1] # drawn[2] /\ payload # original)

\* C16, amended: each encryptText call puts the nonce it drew into its
\* payload, and two calls on the same plaintext under one key give the
\* same payload exactly when they drew the same nonce.
C16_NonceDecidesPayload ==
  pc = "cEncryptedTwice" =>
    /\ Split(original, COLON)[1] = HexEncode(drawn[1])
    /\ Split(payload, COLON)[1] = HexEncode(drawn[2])
    /\ drawn[1] # drawn[2] <=> payload # original

\* a plaintext was encrypted twice under different nonces
C16_Witness ==
  /\ pc = "cEncryptedTwice"
  /\ plain # <<>>
  /\ drawn[1] # drawn[2]
  /\ payload # original

ActiveIn(entries, id) ==
  \E i \in 1..Len(entries) : entries[i].id = id /\ ~entries[i].deprecated

DeprecatedIn(entries, id) ==
  \E i \in 1..Len(entries) : entries[i].id = id /\ entries[i].deprecated

\* C17, one step: an entry of the store file that was active and is
\* deprecated afterwards is the entry selected in the Get flow under way,
\* whose secret that flow decrypted, and the step is the rotation; an entry
\* that is new in the file is active.
C17_Step ==
  \A id \in 1..MaxIds :
    /\ (ActiveIn(disk.entries, id) /\ DeprecatedIn(disk'.entries, id)) =>
         /\ pc = "getNext"
         /\ lastOp = "decrypted"
         /\ lastOp' = "rotate"
         /\ store[entry].id = id
         /\ \E short \in BOOLEAN : decryptText(masterKey, store[entry].secret, short).ok
    /\ (~ActiveIn(disk.entries, id) /\ ~DeprecatedIn(disk.entries, id))
         => ~DeprecatedIn(disk'.entries, id)

\* C17: deprecated changes from false to true only in the rotation of that
\* entry, after its secret was decrypted in the same Get flow; generate,
\* replace-on-corruption, show-deprecated and delete deprecate nothing.
C17_OnlyRotateDeprecates == [][C17_Step]_vars

\* a rotation has just deprecated the entry it decrypted
C17_Witness ==
  /\ pc = "pause"
  /\ lastOp = "rotate"
  /\ ~before[entry].deprecated
  /\ disk.entries[entry].deprecated
  /\ disk.entries[entry].id = before[entry].id

\* the names generateFlow can store: what the user typed, trimmed
TrimmedNames == {Trim(x) : x \in NameInputs} \ {<<>>}

\* C18: after Generate the store file is the one before with one entry
\* more at the end: active, without deprecatedAt, with an id no older entry
\* has, the trimmed name and a createdAt; the older entries are as they
\* were, also when one of them is active under the same name.
C18_Generate ==
  (pc = "pause" /\ lastOp = "generate") =>
    LET after == disk.entries
        new   == after[Len(after)]
    IN /\ Len(after) = Len(before) + 1
       /\ SubSeq(after, 1, Len(before)) = before
       /\ Active(new)
       /\ new.deprecatedAt = NoDate
       /\ \A i \in 1..Len(before) : before[i].id # new.id
       /\ new.name \in TrimmedNames
       /\ new.createdAt = now
       /\ new.createdAt > 0
       /\ \E short \in BOOLEAN : decryptText(masterKey, new.secret, short).ok

\* Generate for a name that already had an active entry
C18_Witness ==
  /\ pc = "pause"
  /\ lastOp = "generate"
  /\ \E i \in 1..Len(before) :
       /\ before[i].name = disk.entries[Len(disk.entries)].name
       /\ Active(before[i])
       /\ disk.entries[i] = before[i]

\* every name of the entries has an active entry
NamesHaveActive(entries) ==
  \A i \in 1..Len(entries) :
    \E j \in 1..Len(entries) :
      entries[j].name = entries[i].name /\ Active(entries[j])

\* C19: in a single session that started without a store, every name in
\* the store file has at least one active entry, whatever generate,
\* rotate, replace-on-corruption and delete steps were taken.
C19_NameHasActive == NamesHaveActive(disk.entries)

\* after a delete, a name is left that has a deprecated and an active entry
C19_Witness ==
  /\ pc = "pause"
  /\ lastOp = "delete"
  /\ reported >= 1
  /\ \E i, j \in 1..Len(disk.entries) :
       /\ disk.entries[i].deprecated
       /\ Active(disk.entries[j])
       /\ disk.entries[i].name = disk.entries[j].name

\* the step is deleteFlow's confirmed delete of this name
DeletesName(n) == pc = "delConfirm" /\ lastOp' = "delete" /\ name = n

\* C20, one step of the program (not a change made to the file from
\* outside): a deprecated entry of the store file is in the file afterwards
\* with every field as it was, unless the step is the delete of its name.
C20_Step ==
  lastOp' # "external" =>
    \A i \in 1..Len(disk.entries) :
      disk.entries[i].deprecated =>
        \/ \E j \in 1..Len(disk'.entries) : disk'.entries[j] = disk.entries[i]
        \/ /\ DeletesName(disk.entries[i].name)
           /\ \A j \in 1..Len(disk'.entries) : disk'.entries[j].id # disk.entries[i].id

\* C20, selection: the entry a Get flow works on is an active one.
C20_Selected ==
  pc \in {"getNext", "getError"} => ~store[entry].deprecated

\* C20: a deprecated entry is never made active again nor changed; it stays
\* in the store until its name is deleted, and Get cannot select it.
C20_DeprecatedAbsorbing == []C20_Selected /\ [][C20_Step]_vars

\* a corrupted active entry was replaced while a deprecated entry of the
\* same name was in the store, and that entry is still there
C20_Witness ==
  /\ pc = "pause"
  /\ lastOp = "replace"
  /\ \E i \in 1..Len(before) :
       /\ before[i].deprecated
       /\ before[i].name = store[entry].name
       /\ \E j \in 1..Len(disk.entries) : disk.entries[j] = before[i]

(***************************************************************************)
(* C21.                                                                    *)
(***************************************************************************)
SavingOps == {"generate", "rotate", "replace", "delete"}

\* the steps of the flows that are not meant to change the store: leaving
\* 'Next?' by 'Back', 'Show deprecated' or 'Exit', showDeprecated after its
\* selection, a delete that was not confirmed, and a Get or Delete that
\* found nothing to select
ReadOnlyStep ==
  \/ pc = "getNext" /\ lastOp' # "rotate"
  \/ pc = "showSelect"
  \/ pc = "delConfirm" /\ lastOp' = "deleteDeclined"
  \/ pc = "menu" /\ pc' = "pause"

\* C21, one step of the program on an existing store file: a read-only
\* step leaves the file as it is, and a step after which the file differs
\* is the save of a generate, rotate, replace or confirmed delete.
C21_Step ==
  (disk.exists /\ lastOp' # "external") =>
    /\ ReadOnlyStep => disk' = disk
    /\ disk' # disk => (lastOp' \in SavingOps /\ pc' = "pause")

\* C21: the flows that do not mutate leave an existing store file
\* unchanged; only generate, rotate, replace-on-corruption and a confirmed
\* delete rewrite it.
C21_ReadOnlyFlows == [][C21_Step]_vars

\* a Get on a store of two entries showed a password and went 'Back'
C21_Witness ==
  /\ pc = "menu"
  /\ lastOp = "back"
  /\ Len(disk.entries) >= 2
  /\ disk.entries = before

====
